---- MODULE Spec2Model ----
(***************************************************************************)
(* The SQL safety rail of the NL2SQL service:                              *)
(*   apps/ml/app/services/sql_validator.py   SQLValidator                  *)
(*   apps/ml/app/services/cost_estimator.py  CostEstimator                 *)
(*   apps/ml/app/services/query_cache.py     QueryCache                    *)
(*   apps/ml/app/services/nl2sql.py          NL2SQLService                 *)
(* and the circuit breaker of the worker:                                  *)
(*   apps/worker/utils/circuit_breaker.py    CircuitBreaker                *)
(*                                                                         *)
(* A SQL text is a sequence of lexemes written with one blank between      *)
(* neighbours.  Every lexeme is spelled out character by character (Spell) *)
(* so that upper-casing, word boundaries and the regular expressions of    *)
(* the validator work on characters, as re and str.upper do.               *)
(* Costs are in thousandths of a planner cost unit.                        *)
(***************************************************************************)
EXTENDS Integers, Sequences, FiniteSets, TLC

VARIABLES sql, policy, pc, warnings, probe, conn, opened, stages, result,
          actual_cost, estimate,
          redis, owner, stored, last, reply, ops,
          gen, issued,
          state, failure_count, last_failure_time, breaker, running, ended,
          streak, manual

\* one call of SQLValidator.validate
validatorVars == <<sql, policy, pc, warnings, probe, conn, opened, stages, result>>

\* one call of CostEstimator.estimate_cost (on sql)
estimatorVars == <<actual_cost, estimate>>

\* the store behind QueryCache (redis), the last operation on the cache and
\* what it returned, the number of operations so far; owner and stored
\* remember which organization set each key and which (question, org) were set
cacheVars == <<redis, owner, stored, last, reply, ops>>

\* the calls of NL2SQLService.generate_sql under way, one per caller, and the
\* number of calls begun
serviceVars == <<gen, issued>>

\* one CircuitBreaker: its three fields, its constructor arguments (breaker),
\* whether a call is inside the protected function (running), how the last
\* operation ended (ended); streak counts the expected failures since the
\* last success or reset, manual the calls of reset and force_open
breakerVars == <<state, failure_count, last_failure_time, breaker, running,
                 ended, streak, manual>>

vars == <<validatorVars, estimatorVars, cacheVars, serviceVars, breakerVars>>

None == "None"

(***************************************************************************)
(* Bounds                                                                  *)
(***************************************************************************)
MaxLen == 4

MaxFromLen == 5

MaxJoinLen == 4

MaxEstimatorLen == 3

\* operations on the cache in one behaviour
MaxOps == 3

\* calls of generate_sql in one behaviour
MaxCalls == 2

\* the largest failure_threshold and recovery_timeout of a breaker
MaxThreshold == 3

MaxTimeout == 2

\* failure_count is followed up to this value
MaxFailures == 4

\* calls of reset and force_open in one behaviour
MaxManual == 2

(***************************************************************************)
(* Characters and str methods                                              *)
(***************************************************************************)
LowerCase == <<"a","b","c","d","e","f","g","h","i","j","k","l","m",
               "n","o","p","q","r","s","t","u","v","w","x","y","z">>

UpperCase == <<"A","B","C","D","E","F","G","H","I","J","K","L","M",
               "N","O","P","Q","R","S","T","U","V","W","X","Y","Z">>

Digits == {"0","1","2","3","4","5","6","7","8","9"}

Range(f) == {f[i] : i \in DOMAIN f}

Letters == Range(LowerCase) \cup Range(UpperCase)

Characters == Letters \cup Digits \cup {"_", " ", "\t", "\n", ";", "-", "*", "/", ",", ".", "'", ":"}

\* str.upper() and str.lower(), character by character
UpperChar ==
    [c \in Characters |->
        IF \E i \in 1..26 : LowerCase[i] = c
        THEN UpperCase[CHOOSE i \in 1..26 : LowerCase[i] = c]
        ELSE c]

LowerChar ==
    [c \in Characters |->
        IF \E i \in 1..26 : UpperCase[i] = c
        THEN LowerCase[CHOOSE i \in 1..26 : UpperCase[i] = c]
        ELSE c]

RECURSIVE MapChars(_, _)
\* the string whose characters are those of s sent through table
MapChars(table, s) ==
    IF s = << >> THEN << >>
    ELSE <<table[s[1]]>> \o MapChars(table, Tail(s))

upper(s) == MapChars(UpperChar, s)

lower(s) == MapChars(LowerChar, s)

\* \w of re
WordChars == Letters \cup Digits \cup {"_"}

IsWordChar(c) == c \in WordChars

\* \s of re, str.strip
IsSpace(c) == c \in {" ", "\t", "\n"}

\* the spelling of every word the model uses
Spell ==
    [w \in {"SELECT", "INSERT", "UPDATE", "DELETE", "UPSERT", "REPLACE", "MERGE",
            "DROP", "TRUNCATE", "ALTER", "CREATE", "GRANT", "REVOKE", "EXEC",
            "EXECUTE", "CALL", "FROM", "ORDER BY", "delete", "dropped",
            "secrets", "Secrets", ";", "--", "*", " ", "UNKNOWN",
            "JOIN", "LEFT JOIN", "RIGHT JOIN", "INNER JOIN", "OUTER JOIN", "CROSS JOIN",
            "GROUP BY", "HAVING", "DISTINCT", "UNION",
            "COUNT", "SUM", "AVG", "MIN", "MAX"} |->
        CASE w = "SELECT"   -> <<"S","E","L","E","C","T">>
          [] w = "INSERT"   -> <<"I","N","S","E","R","T">>
          [] w = "UPDATE"   -> <<"U","P","D","A","T","E">>
          [] w = "DELETE"   -> <<"D","E","L","E","T","E">>
          [] w = "UPSERT"   -> <<"U","P","S","E","R","T">>
          [] w = "REPLACE"  -> <<"R","E","P","L","A","C","E">>
          [] w = "MERGE"    -> <<"M","E","R","G","E">>
          [] w = "DROP"     -> <<"D","R","O","P">>
          [] w = "TRUNCATE" -> <<"T","R","U","N","C","A","T","E">>
          [] w = "ALTER"    -> <<"A","L","T","E","R">>
          [] w = "CREATE"   -> <<"C","R","E","A","T","E">>
          [] w = "GRANT"    -> <<"G","R","A","N","T">>
          [] w = "REVOKE"   -> <<"R","E","V","O","K","E">>
          [] w = "EXEC"     -> <<"E","X","E","C">>
          [] w = "EXECUTE"  -> <<"E","X","E","C","U","T","E">>
          [] w = "CALL"     -> <<"C","A","L","L">>
          [] w = "FROM"     -> <<"F","R","O","M">>
          [] w = "ORDER BY" -> <<"O","R","D","E","R"," ","B","Y">>
          [] w = "delete"   -> <<"d","e","l","e","t","e">>
          [] w = "dropped"  -> <<"d","r","o","p","p","e","d">>
          [] w = "secrets"  -> <<"s","e","c","r","e","t","s">>
          [] w = "Secrets"  -> <<"S","e","c","r","e","t","s">>
          [] w = ";"        -> <<";">>
          [] w = "--"       -> <<"-","-">>
          [] w = "*"        -> <<"*">>
          [] w = " "        -> <<" ">>
          [] w = "UNKNOWN"  -> <<"U","N","K","N","O","W","N">>
          [] w = "JOIN"       -> <<"J","O","I","N">>
          [] w = "LEFT JOIN"  -> <<"L","E","F","T"," ","J","O","I","N">>
          [] w = "RIGHT JOIN" -> <<"R","I","G","H","T"," ","J","O","I","N">>
          [] w = "INNER JOIN" -> <<"I","N","N","E","R"," ","J","O","I","N">>
          [] w = "OUTER JOIN" -> <<"O","U","T","E","R"," ","J","O","I","N">>
          [] w = "CROSS JOIN" -> <<"C","R","O","S","S"," ","J","O","I","N">>
          [] w = "GROUP BY"   -> <<"G","R","O","U","P"," ","B","Y">>
          [] w = "HAVING"     -> <<"H","A","V","I","N","G">>
          [] w = "DISTINCT"   -> <<"D","I","S","T","I","N","C","T">>
          [] w = "UNION"      -> <<"U","N","I","O","N">>
          [] w = "COUNT"      -> <<"C","O","U","N","T">>
          [] w = "SUM"        -> <<"S","U","M">>
          [] w = "AVG"        -> <<"A","V","G">>
          [] w = "MIN"        -> <<"M","I","N">>
          [] w = "MAX"        -> <<"M","A","X">>]

\* the word a character sequence spells
Word(s) == CHOOSE w \in DOMAIN Spell : Spell[w] = s

IsSpelled(s) == \E w \in DOMAIN Spell : Spell[w] = s

RECURSIVE Join(_)
\* " ".join of the lexemes: the raw text handed to validate
Join(lexemes) ==
    IF lexemes = << >> THEN << >>
    ELSE IF Len(lexemes) = 1 THEN Spell[lexemes[1]]
    ELSE Spell[lexemes[1]] \o <<" ">> \o Join(Tail(lexemes))

\* str.strip() leaves nothing
IsBlank(s) == \A i \in 1..Len(s) : IsSpace(s[i])

(***************************************************************************)
(* re.search.  A pattern is a sequence of elements: a literal character,   *)
(* or one of \b, \s*, \s+, .* .                                            *)
(***************************************************************************)
\* \b at position i of s (between s[i-1] and s[i])
AtBoundary(s, i) ==
    LET before == i > 1 /\ IsWordChar(s[i - 1])
        after  == i <= Len(s) /\ IsWordChar(s[i])
    IN  before # after

RECURSIVE MatchAt(_, _, _, _, _)
\* elements k.. of pat match s from position i on
MatchAt(pat, k, s, i, ignorecase) ==
    IF k > Len(pat) THEN TRUE
    ELSE LET e == pat[k] IN
        CASE e = "\\b"  -> MatchAt(pat, k + 1, s, i, ignorecase) /\ AtBoundary(s, i)
          [] e = "\\s*" -> \/ MatchAt(pat, k + 1, s, i, ignorecase)
                           \/ /\ i <= Len(s)
                              /\ IsSpace(s[i])
                              /\ MatchAt(pat, k, s, i + 1, ignorecase)
          [] e = "\\s+" -> /\ i <= Len(s)
                           /\ IsSpace(s[i])
                           /\ \/ MatchAt(pat, k + 1, s, i + 1, ignorecase)
                              \/ MatchAt(pat, k, s, i + 1, ignorecase)
          [] e = ".*"   -> \/ MatchAt(pat, k + 1, s, i, ignorecase)
                           \/ /\ i <= Len(s)
                              /\ s[i] # "\n"
                              /\ MatchAt(pat, k, s, i + 1, ignorecase)
          [] OTHER      -> /\ i <= Len(s)
                           /\ IF ignorecase THEN UpperChar[s[i]] = UpperChar[e]
                                            ELSE s[i] = e
                           /\ MatchAt(pat, k + 1, s, i + 1, ignorecase)

re_search(pat, s, ignorecase) ==
    \E i \in 1..(Len(s) + 1) : MatchAt(pat, 1, s, i, ignorecase)

(***************************************************************************)
(* SQLValidator: class constants                                           *)
(***************************************************************************)
DANGEROUS_KEYWORDS ==
    <<"DROP", "DELETE", "TRUNCATE", "ALTER", "CREATE", "INSERT", "UPDATE",
      "GRANT", "REVOKE", "EXEC", "EXECUTE", "CALL", "MERGE", "REPLACE">>

DANGEROUS_PATTERNS ==
    << <<";", "\\s*", "D", "R", "O", "P">>,
       <<";", "\\s*", "D", "E", "L", "E", "T", "E">>,
       <<"-", "-">>,
       <<"/", "*", ".*", "*", "/">>,
       <<"x", "p", "_", "c", "m", "d", "s", "h", "e", "l", "l">>,
       <<"p", "g", "_", "s", "l", "e", "e", "p">>,
       <<"b", "e", "n", "c", "h", "m", "a", "r", "k">>,
       <<"w", "a", "i", "t", "f", "o", "r", "\\s+", "d", "e", "l", "a", "y">> >>

\* order-preserving filter
RECURSIVE SelectSeq2(_, _)
SelectSeq2(s, keep) ==
    IF s = << >> THEN << >>
    ELSE (IF keep[s[1]] THEN <<s[1]>> ELSE << >>) \o SelectSeq2(Tail(s), keep)

\* the keyword search without the upper-casing of the text
_check_dangerous_keywords_cased(raw) ==
    LET hit == [k \in Range(DANGEROUS_KEYWORDS) |->
                   re_search(<<"\\b">> \o Spell[k] \o <<"\\b">>, raw, FALSE)]
    IN  SelectSeq2(DANGEROUS_KEYWORDS, hit)

\* _check_dangerous_keywords: the keywords found as whole words in sql.upper()
_check_dangerous_keywords(raw) ==
    LET sql_upper == upper(raw)
        hit == [k \in Range(DANGEROUS_KEYWORDS) |->
                   re_search(<<"\\b">> \o Spell[k] \o <<"\\b">>, sql_upper, FALSE)]
    IN  SelectSeq2(DANGEROUS_KEYWORDS, hit)

\* _check_dangerous_patterns: some pattern matches, ignoring case
_check_dangerous_patterns(raw) ==
    \E n \in DOMAIN DANGEROUS_PATTERNS : re_search(DANGEROUS_PATTERNS[n], raw, TRUE)

(***************************************************************************)
(* sqlparse.parse, as far as the validator looks at its result: the lexer, *)
(* the statement splitter and the grouping of names and comments.          *)
(* A token is a leaf (ttype, value) or a group (ttype None) of leaves; the *)
(* value is the run of lexemes the token spans.  Whitespace tokens are     *)
(* left out: no function of the validator looks at them.                   *)
(***************************************************************************)
DML_WORDS == {"SELECT", "INSERT", "DELETE", "UPDATE", "UPSERT", "REPLACE", "MERGE"}

DDL_WORDS == {"DROP", "CREATE", "ALTER"}

KEYWORD_WORDS ==
    {"FROM", "ORDER BY", "GROUP BY", "HAVING", "DISTINCT", "UNION",
     "JOIN", "LEFT JOIN", "RIGHT JOIN", "INNER JOIN", "OUTER JOIN", "CROSS JOIN",
     "TRUNCATE", "GRANT", "REVOKE", "EXEC", "EXECUTE", "CALL"}

\* the lexer's token type of every lexeme (keywords are looked up upper-cased)
TokenTypes ==
    [lexeme \in DOMAIN Spell |->
     LET u == upper(Spell[lexeme])
         w == IF IsSpelled(u) THEN Word(u) ELSE None
     IN CASE w \in DML_WORDS     -> "Keyword.DML"
          [] w \in DDL_WORDS     -> "Keyword.DDL"
          [] w \in KEYWORD_WORDS -> "Keyword"
          [] w = ";"             -> "Punctuation"
          [] w = "*"             -> "Wildcard"
          [] w = "--"            -> "Comment.Single"
          [] w = " "             -> "Whitespace"
          [] OTHER               -> "Name"]

TokenType(lexeme) == TokenTypes[lexeme]

Leaf(ttype, value) ==
    [ttype |-> ttype, value |-> value, is_group |-> FALSE, items |-> << >>]

TokenList(cls, items) ==
    [ttype |-> None, value |-> items[1].value, is_group |-> TRUE, items |-> items]

RECURSIVE Lexer(_)
\* "--" opens a comment that runs to the end of the line
Lexer(lexemes) ==
    IF lexemes = << >> THEN << >>
    ELSE IF TokenType(lexemes[1]) = "Comment.Single"
         THEN <<Leaf("Comment.Single", lexemes)>>
         ELSE <<Leaf(TokenType(lexemes[1]), <<lexemes[1]>>)>> \o Lexer(Tail(lexemes))

EOS_TTYPE == {"Whitespace", "Comment.Single"}

RECURSIVE StatementSplitter(_, _, _)
\* a ';' ends a statement; the next token that is neither whitespace nor a
\* single-line comment opens the next one
StatementSplitter(stream, tokens, consume_ws) ==
    IF stream = << >>
    THEN IF tokens # << >> THEN <<tokens>> ELSE << >>
    ELSE LET t == Head(stream) IN
         IF consume_ws /\ t.ttype \notin EOS_TTYPE
         THEN <<tokens>> \o StatementSplitter(stream, << >>, FALSE)
         ELSE StatementSplitter(Tail(stream), Append(tokens, t),
                  consume_ws \/ (t.ttype = "Punctuation" /\ t.value = <<";">>))

\* grouping: a name becomes an Identifier, a comment a Comment
Grouping(statement) ==
    [n \in 1..Len(statement) |->
        IF statement[n].ttype \in {"Name", "Comment.Single"}
        THEN TokenList("group", <<statement[n]>>)
        ELSE statement[n]]

parse(lexemes) ==
    LET statements == StatementSplitter(Lexer(lexemes), << >>, FALSE)
    IN  [n \in 1..Len(statements) |-> Grouping(statements[n])]

is_keyword(token) ==
    token.ttype \in {"Keyword", "Keyword.DML", "Keyword.DDL"}

\* str(token).upper() of a one-lexeme token, as a word
UpperValue(token) ==
    LET u == upper(Join(token.value))
    IN  IF IsSpelled(u) THEN Word(u) ELSE None

(***************************************************************************)
(* SQLValidator                                                            *)
(***************************************************************************)
\* __init__: the two sets derived from the settings
allowed_operations(settings) ==
    {Word(upper(Spell[op])) : op \in settings.allowed_operations}

blocked_tables(settings) ==
    {lower(Spell[t]) : t \in settings.blocked_tables}

RECURSIVE _get_statement_type(_)
_get_statement_type(statement) ==
    IF statement = << >> THEN "UNKNOWN"
    ELSE IF Head(statement).ttype = "Keyword.DML"
         THEN UpperValue(Head(statement))
         ELSE _get_statement_type(Tail(statement))

STOP_WORDS ==
    {"WHERE", "JOIN", "LEFT", "RIGHT", "INNER", "OUTER", "ON", "GROUP", "ORDER", "LIMIT"}

\* the items of a group that count as table names
RECURSIVE ItemNames(_)
ItemNames(items) ==
    IF items = << >> THEN << >>
    ELSE LET item == Head(items) IN
         (IF item.ttype \in {"Name", None} /\ ~ is_keyword(item) /\ ~ IsBlank(Join(item.value))
          THEN <<item.value[1]>> ELSE << >>) \o ItemNames(Tail(items))

RECURSIVE ExtractTables(_, _)
\* the loop of _extract_tables, from_seen being its flag
ExtractTables(tokens, from_seen) ==
    IF tokens = << >> THEN << >>
    ELSE LET token   == Head(tokens)
             inList  == from_seen /\ token.ttype = None /\ token.is_group
             inName  == /\ from_seen
                        /\ ~ inList
                        /\ token.ttype \in {"Name", None}
                        /\ ~ is_keyword(token)
                        /\ ~ IsBlank(Join(token.value))
                        /\ UpperValue(token) \notin STOP_WORDS
             found   == IF inList THEN ItemNames(token.items)
                        ELSE IF inName THEN <<token.value[1]>>
                        ELSE << >>
             isFrom  == token.ttype = "Keyword" /\ UpperValue(token) = "FROM"
             seen    == (from_seen /\ ~ inName) \/ isFrom
         IN  found \o ExtractTables(Tail(tokens), seen)

_extract_tables(statement) == ExtractTables(statement, FALSE)

_check_blocked_tables(statement, settings) ==
    LET tables == _extract_tables(statement)
        hit == [t \in Range(tables) |-> lower(Spell[t]) \in blocked_tables(settings)]
    IN  SelectSeq2(tables, hit)

\* the wildcard looked for in the first token alone
_has_select_star_first(statement) ==
    /\ statement # << >>
    /\ statement[1].ttype = "Wildcard" /\ statement[1].value = <<"*">>

_has_select_star(statement) ==
    \E n \in DOMAIN statement :
        statement[n].ttype = "Wildcard" /\ statement[n].value = <<"*">>

(***************************************************************************)
(* CostEstimator (cost_estimator.py): the heuristic, in thousandths        *)
(***************************************************************************)
BASE_COST == 100

COST_WEIGHTS ==
    [w \in {"JOIN", "LEFT JOIN", "RIGHT JOIN", "INNER JOIN", "OUTER JOIN", "CROSS JOIN",
            "SUBQUERY", "GROUP BY", "ORDER BY", "HAVING", "DISTINCT", "UNION",
            "AGGREGATE"} |->
        CASE w = "OUTER JOIN" -> 2500
          [] w = "CROSS JOIN" -> 5000
          [] w = "SUBQUERY"   -> 3000
          [] w = "GROUP BY"   -> 1500
          [] w = "ORDER BY"   -> 1200
          [] w = "HAVING"     -> 1300
          [] w = "DISTINCT"   -> 1500
          [] w = "AGGREGATE"  -> 1000
          [] OTHER            -> 2000]

RECURSIVE CountFrom(_, _, _)
\* str.count: the occurrences of sub in s from position i on, not overlapping
CountFrom(sub, s, i) ==
    IF i + Len(sub) - 1 > Len(s) THEN 0
    ELSE IF SubSeq(s, i, i + Len(sub) - 1) = sub
         THEN 1 + CountFrom(sub, s, i + Len(sub))
         ELSE CountFrom(sub, s, i + 1)

count(s, word) == CountFrom(Spell[word], s, 1)

JOIN_TYPES == <<"CROSS JOIN", "LEFT JOIN", "RIGHT JOIN", "INNER JOIN", "OUTER JOIN", "JOIN">>

AGGREGATES == <<"COUNT", "SUM", "AVG", "MIN", "MAX">>

RECURSIVE SumOver(_, _)
SumOver(words, f) ==
    IF words = << >> THEN 0 ELSE f[Head(words)] + SumOver(Tail(words), f)

\* estimate_cost, lines 26-77: the heuristic cost of a text
heuristic_cost(raw) ==
    LET sql_upper      == upper(raw)
        joins          == [j \in Range(JOIN_TYPES) |-> count(sql_upper, j) * COST_WEIGHTS[j]]
        subquery_count == count(sql_upper, "SELECT") - 1
        aggregates     == [a \in Range(AGGREGATES) |-> count(sql_upper, a)]
        present(w)     == IF count(sql_upper, w) > 0 THEN COST_WEIGHTS[w] ELSE 0
    IN  BASE_COST
        + SumOver(JOIN_TYPES, joins)
        + (IF subquery_count > 0 THEN subquery_count * COST_WEIGHTS["SUBQUERY"] ELSE 0)
        + present("GROUP BY")
        + present("ORDER BY")
        + present("HAVING")
        + present("DISTINCT")
        + count(sql_upper, "UNION") * COST_WEIGHTS["UNION"]
        + SumOver(AGGREGATES, aggregates) * COST_WEIGHTS["AGGREGATE"]

\* _get_complexity_level
_get_complexity_level(cost) ==
    IF cost < 2000 THEN "LOW"
    ELSE IF cost < 5000 THEN "MEDIUM"
    ELSE IF cost < 10000 THEN "HIGH"
    ELSE "VERY_HIGH"

\* an optional float: << >> is None, <<x>> the value x
IsNone(optional) == optional = << >>

\* the truth value Python gives an optional float: None and 0.0 are false
IsTruthy(optional) == ~ IsNone(optional) /\ optional[1] # 0

Factor(n, what) == [count |-> n, what |-> what]

\* a factor named once when the text holds the word
Present(sql_upper, word) ==
    IF count(sql_upper, word) > 0 THEN <<Factor(1, word)>> ELSE << >>

\* a factor that carries a count, when the count is positive
Counted(n, what) == IF n > 0 THEN <<Factor(n, what)>> ELSE << >>

RECURSIVE JoinFactors(_, _)
JoinFactors(join_types, sql_upper) ==
    IF join_types = << >> THEN << >>
    ELSE Counted(count(sql_upper, Head(join_types)), Head(join_types))
         \o JoinFactors(Tail(join_types), sql_upper)

AggregateCount(sql_upper) ==
    SumOver(AGGREGATES, [a \in Range(AGGREGATES) |-> count(sql_upper, a)])

\* estimate_cost: the factors list, in the order the features are evaluated
FactorsOf(sql_upper) ==
    JoinFactors(JOIN_TYPES, sql_upper)
    \o Counted(count(sql_upper, "SELECT") - 1, "subquery")
    \o Present(sql_upper, "GROUP BY")
    \o Present(sql_upper, "ORDER BY")
    \o Present(sql_upper, "HAVING")
    \o Present(sql_upper, "DISTINCT")
    \o Counted(count(sql_upper, "UNION"), "UNION")
    \o Counted(AggregateCount(sql_upper), "aggregate")

complexity_factors(raw) == FactorsOf(upper(raw))

\* line 80: final_cost = actual_cost if actual_cost else cost
FinalCost(actual, cost) == IF IsTruthy(actual) THEN actual[1] ELSE cost

\* the level taken from the final cost
LevelCost_final(cost, final_cost) == final_cost

\* line 87: the cost handed to _get_complexity_level
LevelCost(cost, final_cost) == cost

\* lines 82-88: the dictionary estimate_cost returns
Estimate(actual, cost, final_cost, factors) ==
    [estimated_cost     |-> final_cost,
     heuristic_cost     |-> cost,
     actual_cost        |-> actual,
     complexity_factors |-> factors,
     complexity_level   |-> _get_complexity_level(LevelCost(cost, final_cost))]

WithCost(actual, cost, factors) ==
    Estimate(actual, cost, FinalCost(actual, cost), factors)

estimate_cost(raw, actual) ==
    WithCost(actual, heuristic_cost(raw), complexity_factors(raw))

(***************************************************************************)
(* QueryCache (query_cache.py).  The store maps keys to JSON texts; a      *)
(* string is a sequence of characters; SHA-256 is taken as injective and   *)
(* kept as a wrapper around the text it digests.                           *)
(***************************************************************************)
RECURSIVE lstrip(_)
lstrip(s) == IF s # << >> /\ IsSpace(s[1]) THEN lstrip(Tail(s)) ELSE s

RECURSIVE rstrip(_)
rstrip(s) ==
    IF s # << >> /\ IsSpace(s[Len(s)]) THEN rstrip(SubSeq(s, 1, Len(s) - 1)) ELSE s

\* str.strip()
strip(s) == rstrip(lstrip(s))

\* hashlib.sha256(text.encode()).hexdigest()
sha256(text) == [sha256 |-> text]

CACHE_PREFIX == "nl2sql:cache:"

\* the question as it is: neither lower-cased nor stripped
Normalized_raw(question) == question

\* question.lower().strip()
Normalized(question) == strip(lower(question))

\* _get_cache_key, line 14: the text that is digested
Combined(org_id, question) == org_id \o <<":">> \o Normalized(question)

_get_cache_key(question, org_id) ==
    [prefix |-> CACHE_PREFIX, hexdigest |-> sha256(Combined(org_id, question))]

\* json.dumps of a cache entry: every value becomes a JSON literal
JsonLiteral(kind, value) == <<kind, value>>

JsonOptional(optional) ==
    IF IsNone(optional) THEN <<"null">> ELSE JsonLiteral("number", optional[1])

json_dumps(data) ==
    [query_id      |-> JsonLiteral("string", data.query_id),
     sql           |-> JsonLiteral("string", data.sql),
     validation    |-> [is_valid       |-> IF data.validation.is_valid
                                           THEN <<"true">> ELSE <<"false">>,
                        estimated_cost |-> JsonOptional(data.validation.estimated_cost)],
     cost_estimate |-> JsonLiteral("number", data.cost_estimate)]

\* json.loads of such a text
FromJsonOptional(literal) == IF literal = <<"null">> THEN << >> ELSE <<literal[2]>>

json_loads(text) ==
    [query_id      |-> text.query_id[2],
     sql           |-> text.sql[2],
     validation    |-> [is_valid       |-> text.validation.is_valid = <<"true">>,
                        estimated_cost |-> FromJsonOptional(text.validation.estimated_cost)],
     cost_estimate |-> text.cost_estimate[2]]

\* redis_client.get: the value under the key, or None
redis_get(store, key) == IF key \in DOMAIN store THEN <<store[key]>> ELSE << >>

\* a set that keeps the value a key already has
redis_setex_first(store, key, value) ==
    [k \in DOMAIN store \cup {key} |-> IF k \in DOMAIN store THEN store[k] ELSE value]

\* redis_client.setex (the expiry is the step Expire)
redis_setex(store, key, value) ==
    [k \in DOMAIN store \cup {key} |-> IF k = key THEN value ELSE store[k]]

\* a delete that removes nothing
redis_delete_none(store, keys) == store

\* what redis_client.delete leaves
redis_delete(store, keys) == [k \in DOMAIN store \ keys |-> store[k]]

\* redis_client.keys("nl2sql:cache:*")
redis_keys(store) == {k \in DOMAIN store : k.prefix = CACHE_PREFIX}

\* get, lines 19-23, the store answering
get(store, question, org_id) ==
    IF redis_get(store, _get_cache_key(question, org_id)) # << >>
    THEN <<json_loads(redis_get(store, _get_cache_key(question, org_id))[1])>>
    ELSE << >>

(***************************************************************************)
(* Settings (app/config.py) and the inputs of one call                     *)
(***************************************************************************)
\* max_query_cost = 1000.0, in thousandths
max_query_cost == 1000000

max_rows_estimate == 10000

Lexicon == {"SELECT", "delete", "DROP", "dropped", "FROM", "secrets", ";", "--"}

FromLexicon == {"SELECT", "FROM", "dropped", "secrets", "ORDER BY"}

TextsOver(lexicon, maxlen) == UNION {[1..n -> lexicon] : n \in 0..maxlen}

\* the texts of at most MaxLen lexemes, the empty text and a whitespace-only one
Texts == TextsOver(Lexicon, MaxLen) \cup {<<" ">>}

\* the texts of the FROM clause: a table list followed by an ORDER BY
FromTexts == TextsOver(FromLexicon, MaxFromLen)

JoinLexicon == {"SELECT", "*", "FROM", "JOIN", "Secrets", "dropped"}

\* sqlparse groups a '*' that stands between two names into an Operation and
\* retypes it as an operator; the grouping above does not reproduce that
IsOperation(lexemes) ==
    \E i \in 2..(Len(lexemes) - 1) :
        /\ lexemes[i] = "*"
        /\ TokenType(lexemes[i - 1]) = "Name"
        /\ TokenType(lexemes[i + 1]) = "Name"

\* the texts with joins and wildcard projections, those with an Operation left out
JoinTexts == {t \in TextsOver(JoinLexicon, MaxJoinLen) : ~ IsOperation(t)}

EstimatorLexicon == {"SELECT", "JOIN", "LEFT JOIN", "OUTER JOIN", "CROSS JOIN", "dropped"}

EstimatorTexts == TextsOver(EstimatorLexicon, MaxEstimatorLen)

\* the actual_cost argument: None, 0.0, 1.0 and 20.0
ActualCosts == {<< >>, <<0>>, <<1000>>, <<20000>>}

\* questions that differ in letter case and outer blanks, and two that hold a colon
Questions == {<<"q">>, <<" ", "Q">>, <<"b", ":", "c">>, <<"c">>}

\* organization ids, one of them with a colon
Orgs == {<<"a">>, <<"a", ":", "b">>}

\* cache entries as generate_sql builds them (nl2sql.py, lines 104-109)
Entries ==
    {[query_id |-> "id1", sql |-> "SELECT", cost_estimate |-> 100,
      validation |-> [is_valid |-> TRUE, estimated_cost |-> << >>]],
     [query_id |-> "id2", sql |-> "SELECT", cost_estimate |-> 1000,
      validation |-> [is_valid |-> TRUE, estimated_cost |-> <<1000>>]]}

Policies ==
    [allowed_operations : {{"SELECT"}, {"SELECT", "delete"}},
     blocked_tables     : {{"secrets"}},
     max_query_cost     : {max_query_cost},
     max_rows_estimate  : {max_rows_estimate}]

\* what the engine may answer to EXPLAIN (FORMAT JSON): the planner prints
\* costs with two decimals
PlanCosts == {0, max_query_cost, max_query_cost + 10}

PlanRows == {0, max_rows_estimate + 1}

EngineOutcomes ==
    [kind : {"connect_fails", "cursor_fails", "execute_fails", "no_row",
             "plan_not_a_dict", "plan_key_missing"}]
    \cup [kind : {"plan"}, cost : PlanCosts, rows : PlanRows]

(***************************************************************************)
(* validate                                                                *)
(***************************************************************************)
QueryValidationResult(is_valid, text, errors, warns, estimated_cost, estimated_rows) ==
    [is_valid |-> is_valid, sql |-> text, errors |-> errors, warnings |-> warns,
     estimated_cost |-> estimated_cost, estimated_rows |-> estimated_rows]

Message(msg, args) == [msg |-> msg, args |-> args]

\* format(x, ".2f") of a cost in thousandths: hundredths, ties to even
Format2f(x) ==
    LET q == x \div 10
        r == x % 10
    IN  IF r > 5 \/ (r = 5 /\ q % 2 = 1) THEN q + 1 ELSE q

\* truth value of a number
Truthy(x) == x # 0

\* the blocked-table check moved ahead of the danger checks
CHECKS_blocked_first ==
    <<"empty", "parse", "multiple", "operation", "blocked", "keywords", "patterns">>

\* the checks without the blocked-table check
CHECKS_no_blocked ==
    <<"empty", "parse", "multiple", "operation", "keywords", "patterns">>

\* the checks of validate that need no database, in the order of the code
CHECKS == <<"empty", "parse", "multiple", "operation", "keywords", "patterns", "blocked">>

\* line 37
IsEmpty(raw) == raw = << >> \/ IsBlank(raw)

\* the multiplicity test off by one
IsMultiple_two(parsed) == Len(parsed) > 2

\* line 52
IsMultiple(parsed) == Len(parsed) > 1

\* line 60
\* a statement without a DML keyword counts as allowed
IsAllowed_unknown(statement_type, settings) ==
    statement_type \in allowed_operations(settings) \cup {"UNKNOWN"}

IsAllowed(statement_type, settings) == statement_type \in allowed_operations(settings)

\* the operation check: the statement type against allowed_operations
OperationErrors(statement_type, settings) ==
    IF ~ IsAllowed(statement_type, settings)
    THEN <<Message("Operation is not allowed",
                   <<statement_type, allowed_operations(settings)>>)>>
    ELSE << >>

\* the keyword check: an error naming the keywords found
KeywordErrors(dangerous_found) ==
    IF dangerous_found # << >>
    THEN <<Message("Dangerous keywords found", dangerous_found)>> ELSE << >>

\* the blocked-table check: an error naming the blocked tables referenced
BlockedErrors(blocked) ==
    IF blocked # << >>
    THEN <<Message("Access to blocked tables", blocked)>> ELSE << >>

\* the errors one check appends (none when it passes); raw is the text and
\* parsed what sqlparse.parse made of it
CheckErrors(check, raw, parsed, settings) ==
    CASE check = "empty" ->
           IF IsEmpty(raw)
           THEN <<Message("SQL query is empty", << >>)>> ELSE << >>
      [] check = "parse" ->
           IF parsed = << >>
           THEN <<Message("Failed to parse SQL query", << >>)>> ELSE << >>
      [] check = "multiple" ->
           IF IsMultiple(parsed)
           THEN <<Message("Multiple SQL statements are not allowed", << >>)>> ELSE << >>
      [] check = "operation" ->
           OperationErrors(_get_statement_type(parsed[1]), settings)
      [] check = "keywords" ->
           KeywordErrors(_check_dangerous_keywords(raw))
      [] check = "patterns" ->
           IF _check_dangerous_patterns(raw)
           THEN <<Message("Dangerous patterns detected in SQL", << >>)>> ELSE << >>
      [] check = "blocked" ->
           BlockedErrors(_check_blocked_tables(parsed[1], settings))

RECURSIVE RunChecks(_, _, _, _, _, _)
RECURSIVE AfterCheck(_, _, _, _, _, _, _)
\* the checks from the n-th on, stopping at the first that appends an error;
\* done holds the checks already run
RunChecks(checks, n, done, raw, parsed, settings) ==
    IF n > Len(checks) THEN [stages |-> done, errors |-> << >>]
    ELSE AfterCheck(CheckErrors(checks[n], raw, parsed, settings),
                    checks, n, done, raw, parsed, settings)

\* the early return after the n-th check, or the next check
AfterCheck(errors, checks, n, done, raw, parsed, settings) ==
    IF errors # << >>
    THEN [stages |-> Append(done, checks[n]), errors |-> errors]
    ELSE RunChecks(checks, n + 1, Append(done, checks[n]), raw, parsed, settings)

\* an early return that does not hand the errors to the result
Rejected_no_errors(errors, warns) ==
    QueryValidationResult(FALSE, None, << >>, warns, None, None)

\* the early returns of validate
Rejected(errors, warns) == QueryValidationResult(FALSE, None, errors, warns, None, None)

\* the ceiling test with >= for >
ExceedsCeiling_ge(estimated_cost, settings) ==
    Truthy(estimated_cost) /\ estimated_cost >= settings.max_query_cost

\* line 92
ExceedsCeiling(estimated_cost, settings) ==
    Truthy(estimated_cost) /\ estimated_cost > settings.max_query_cost

\* line 102
ManyRows(estimated_rows, settings) ==
    Truthy(estimated_rows) /\ estimated_rows > settings.max_rows_estimate

\* a handler for the driver's errors only
ExceptException_driver(exception) == exception = "psycopg2.Error"

\* line 104: except Exception
ExceptException(exception) == exception \in {"Exception", "psycopg2.Error"}

(***************************************************************************)
(* The state machine of one call of validate                               *)
(***************************************************************************)
\* no call of estimate_cost is under way
EstimatorIdle ==
    /\ actual_cost = << >>
    /\ estimate = None

\* no call of generate_sql is under way
ServiceIdle ==
    /\ gen = << >>
    /\ issued = 0

\* a breaker as the constructor leaves it, with the default arguments
BreakerIdle ==
    /\ state = "CLOSED"
    /\ failure_count = 0
    /\ last_failure_time = << >>
    /\ breaker = [failure_threshold |-> 5, recovery_timeout |-> 60,
                  fallback_function |-> FALSE]
    /\ running = FALSE
    /\ ended = [op |-> "none"]
    /\ streak = 0
    /\ manual = 0

\* an empty store and no operation on the cache
CacheIdle ==
    /\ redis = << >>
    /\ owner = << >>
    /\ stored = { }
    /\ last = [op |-> "none"]
    /\ reply = None
    /\ ops = 0

InitWith(texts) ==
    /\ sql \in texts
    /\ policy \in Policies
    /\ pc = "start"
    /\ warnings = << >>
    /\ probe = [status |-> "none"]
    /\ conn = "none"
    /\ opened = 0
    /\ stages = << >>
    /\ result = None
    /\ EstimatorIdle
    /\ CacheIdle
    /\ ServiceIdle
    /\ BreakerIdle

Init == InitWith(Texts)

InitFrom == InitWith(FromTexts)

InitJoin == InitWith(JoinTexts)

\* validate, lines 33-84: returns a rejection or goes on to the cost estimate
Validate ==
    /\ pc = "start"
    /\ \E run \in {RunChecks(CHECKS, 1, << >>, Join(sql), parse(sql), policy)} :
       IF run.errors # << >>
       THEN /\ stages' = run.stages
            /\ result' = Rejected(run.errors, warnings)
            /\ pc' = "returned"
            /\ UNCHANGED warnings
       ELSE /\ stages' = Append(run.stages, "wildcard")
            /\ warnings' =
                   IF _has_select_star(parse(sql)[1])
                   THEN <<Message("Query uses SELECT * which may be inefficient", << >>)>>
                   ELSE << >>
            /\ pc' = "estimating"
            /\ UNCHANGED result
    /\ UNCHANGED <<sql, policy, probe, conn, opened>>
    /\ UNCHANGED <<estimatorVars, cacheVars, serviceVars, breakerVars>>

\* _get_query_cost, one call: conn.close() is reached after a fetched row and
\* after an empty answer; an exception after connect leaves before it
GetQueryCost(outcome) ==
    /\ pc = "estimating"
    /\ stages' = Append(stages, "cost")
    /\ opened' = IF outcome.kind = "connect_fails" THEN opened ELSE opened + 1
    /\ conn' = CASE outcome.kind = "connect_fails" -> conn
                 [] outcome.kind \in {"no_row", "plan_key_missing", "plan"} -> "closed"
                 [] OTHER -> "open"
    /\ probe' = CASE outcome.kind = "plan" ->
                       [status |-> "returned", outcome |-> outcome.kind,
                        cost |-> outcome.cost, rows |-> outcome.rows]
                  [] outcome.kind \in {"no_row", "plan_key_missing"} ->
                       [status |-> "returned", outcome |-> outcome.kind,
                        cost |-> 0, rows |-> 0]
                  [] OTHER ->
                       [status |-> "raised", outcome |-> outcome.kind,
                        exception |-> "Exception"]
    /\ pc' = "estimated"
    /\ UNCHANGED <<sql, policy, warnings, result>>
    /\ UNCHANGED <<estimatorVars, cacheVars, serviceVars, breakerVars>>

\* validate, lines 90-115: the ceiling, the row warning, the soft failure
ValidateCost ==
    /\ pc = "estimated"
    /\ IF probe.status = "returned"
       THEN LET estimated_cost == probe.cost
                estimated_rows == probe.rows IN
            IF ExceedsCeiling(estimated_cost, policy)
            THEN /\ result' = QueryValidationResult(FALSE, None,
                                 <<Message("Query cost estimate exceeds maximum allowed",
                                           <<Format2f(estimated_cost), policy.max_query_cost>>)>>,
                                 warnings, estimated_cost, estimated_rows)
                 /\ UNCHANGED warnings
                 /\ pc' = "returned"
            ELSE /\ warnings' =
                        IF ManyRows(estimated_rows, policy)
                        THEN Append(warnings,
                                    Message("Query may return many rows", <<estimated_rows>>))
                        ELSE warnings
                 /\ result' = QueryValidationResult(TRUE, sql, << >>, warnings',
                                 estimated_cost, estimated_rows)
                 /\ pc' = "returned"
       ELSE IF ExceptException(probe.exception)
            THEN /\ warnings' = Append(warnings,
                                       Message("Could not estimate query cost", <<probe.outcome>>))
                 /\ result' = QueryValidationResult(TRUE, sql, << >>, warnings', None, None)
                 /\ pc' = "returned"
            ELSE /\ pc' = "raised"
                 /\ UNCHANGED <<warnings, result>>
    /\ UNCHANGED <<sql, policy, probe, conn, opened, stages>>
    /\ UNCHANGED <<estimatorVars, cacheVars, serviceVars, breakerVars>>

\* one call of estimate_cost(sql, actual_cost)
InitEstimator ==
    /\ sql \in EstimatorTexts
    /\ actual_cost \in ActualCosts
    /\ estimate = None
    /\ pc = "start"
    /\ policy \in {p \in Policies : p.allowed_operations = {"SELECT"}}
    /\ warnings = << >>
    /\ probe = [status |-> "none"]
    /\ conn = "none"
    /\ opened = 0
    /\ stages = << >>
    /\ result = None
    /\ CacheIdle
    /\ ServiceIdle
    /\ BreakerIdle

\* estimate_cost: sqlparse.parse(sql)[0] raises IndexError on a text without
\* a statement; otherwise the dictionary is returned
EstimateCost ==
    /\ pc = "start"
    /\ IF parse(sql) = << >>
       THEN /\ pc' = "raised"
            /\ UNCHANGED estimate
       ELSE /\ estimate' = estimate_cost(Join(sql), actual_cost)
            /\ pc' = "returned"
    /\ UNCHANGED <<sql, policy, warnings, probe, conn, opened, stages, result, actual_cost>>
    /\ UNCHANGED <<cacheVars, serviceVars, breakerVars>>

NextEstimator == EstimateCost

SpecEstimator == InitEstimator /\ [][NextEstimator]_vars

(***************************************************************************)
(* The state machine of the cache: the four operations of QueryCache, each *)
(* with a store that answers or raises, and the expiry the store enforces  *)
(***************************************************************************)
EmptyStore == [k \in { } |-> << >>]

InitCache ==
    /\ redis = EmptyStore
    /\ owner = EmptyStore
    /\ stored = { }
    /\ last = [op |-> "none"]
    /\ reply = None
    /\ ops = 0
    /\ sql = << >>
    /\ policy \in {p \in Policies : p.allowed_operations = {"SELECT"}}
    /\ pc = "idle"
    /\ warnings = << >>
    /\ probe = [status |-> "none"]
    /\ conn = "none"
    /\ opened = 0
    /\ stages = << >>
    /\ result = None
    /\ EstimatorIdle
    /\ ServiceIdle
    /\ BreakerIdle

Operation(op, question, org_id, raises) ==
    [op |-> op, question |-> question, org_id |-> org_id, raises |-> raises]

\* get: the entry under the key, None on a miss and when the store raises
CacheGet(question, org_id, raises) ==
    /\ ops < MaxOps
    /\ ops' = ops + 1
    /\ last' = Operation("get", question, org_id, raises)
    /\ reply' = IF raises THEN << >> ELSE get(redis, question, org_id)
    /\ UNCHANGED <<redis, owner, stored>>
    /\ UNCHANGED <<validatorVars, estimatorVars, serviceVars, breakerVars>>

\* set: True after setex, False when the store raises
CacheSet(question, org_id, data, raises) ==
    /\ ops < MaxOps
    /\ ops' = ops + 1
    /\ last' = [op |-> "set", question |-> question, org_id |-> org_id,
                raises |-> raises, data |-> data]
    /\ IF raises
       THEN /\ reply' = FALSE
            /\ UNCHANGED <<redis, owner, stored>>
       ELSE /\ redis' = redis_setex(redis, _get_cache_key(question, org_id), json_dumps(data))
            /\ owner' = redis_setex(owner, _get_cache_key(question, org_id), org_id)
            /\ stored' = stored \cup {<<question, org_id>>}
            /\ reply' = TRUE
    /\ UNCHANGED <<validatorVars, estimatorVars, serviceVars, breakerVars>>

\* invalidate: True after delete, False when the store raises
CacheInvalidate(question, org_id, raises) ==
    /\ ops < MaxOps
    /\ ops' = ops + 1
    /\ last' = Operation("invalidate", question, org_id, raises)
    /\ IF raises
       THEN /\ reply' = FALSE
            /\ UNCHANGED <<redis, owner>>
       ELSE /\ redis' = redis_delete(redis, {_get_cache_key(question, org_id)})
            /\ owner' = redis_delete(owner, {_get_cache_key(question, org_id)})
            /\ reply' = TRUE
    /\ UNCHANGED stored
    /\ UNCHANGED <<validatorVars, estimatorVars, serviceVars, breakerVars>>

\* clear_all: with an org_id, every key of the pattern is deleted and their
\* number returned; 0 without an org_id, without keys and when the store raises
CacheClearAll(org_id, raises) ==
    /\ ops < MaxOps
    /\ ops' = ops + 1
    /\ last' = Operation("clear_all", << >>, org_id, raises)
    /\ IF ~ raises /\ org_id # << >> /\ redis_keys(redis) # { }
       THEN /\ redis' = redis_delete(redis, redis_keys(redis))
            /\ owner' = redis_delete(owner, redis_keys(redis))
            /\ reply' = Cardinality(redis_keys(redis))
       ELSE /\ reply' = 0
            /\ UNCHANGED <<redis, owner>>
    /\ UNCHANGED stored
    /\ UNCHANGED <<validatorVars, estimatorVars, serviceVars, breakerVars>>

\* the store drops a key whose time to live (settings.cache_ttl) has run out
Expire(key) ==
    /\ ops < MaxOps
    /\ key \in DOMAIN redis
    /\ ops' = ops + 1
    /\ last' = [op |-> "expire"]
    /\ redis' = redis_delete(redis, {key})
    /\ owner' = redis_delete(owner, {key})
    /\ UNCHANGED <<stored, reply>>
    /\ UNCHANGED <<validatorVars, estimatorVars, serviceVars, breakerVars>>

NextCache ==
    \/ \E q \in Questions, o \in Orgs, raises \in BOOLEAN : CacheGet(q, o, raises)
    \/ \E q \in Questions, o \in Orgs, e \in Entries, raises \in BOOLEAN :
           CacheSet(q, o, e, raises)
    \/ \E q \in Questions, o \in Orgs, raises \in BOOLEAN : CacheInvalidate(q, o, raises)
    \/ \E o \in Orgs \cup {<< >>}, raises \in BOOLEAN : CacheClearAll(o, raises)
    \/ \E key \in DOMAIN redis : Expire(key)

SpecCache == InitCache /\ [][NextCache]_vars

Next ==
    \/ Validate
    \/ \E outcome \in EngineOutcomes : GetQueryCost(outcome)
    \/ ValidateCost

Spec == Init /\ [][Next]_vars

SpecFrom == InitFrom /\ [][Next]_vars

SpecJoin == InitJoin /\ [][Next]_vars

(***************************************************************************)
(* NL2SQLService.generate_sql (nl2sql.py): two callers share the cache.    *)
(* A call is the steps between its accesses to the cache; the services     *)
(* that a call reaches are written to its trace.                           *)
(***************************************************************************)
Callers == {1, 2}

\* the questions of the requests (equal after normalization) and their org
ServiceQuestions == {<<"q">>, <<" ", "Q">>}

ServiceOrgs == {<<"a">>}

\* the lexemes that open and close a Markdown code block
Fences == {"FENCE_SQL", "FENCE"}

\* what the model may answer: a statement, a fenced one with its ";", one
\* that the validator rejects, nothing
Generated ==
    {<<"SELECT", "FROM", "dropped">>,
     <<"FENCE_SQL", "SELECT", "*", "FROM", "dropped", ";", "FENCE">>,
     <<"DROP", "dropped">>,
     << >>}

\* the services between the lookup and the validation, in call order
SERVICES ==
    <<"llm.generate_embedding", "vector_store.fetch_relevant_schemas",
      "llm.generate_sql">>

\* what the engine answers to the EXPLAIN of these statements
ServiceOutcomes ==
    {o \in EngineOutcomes :
        \/ o.kind = "connect_fails"
        \/ o.kind = "plan" /\ o.rows = 0 /\ o.cost # max_query_cost}

\* settings of app/config.py
ServiceSettings == CHOOSE p \in Policies : p.allowed_operations = {"SELECT"}

\* _clean_sql: the fences go, a ";" is put at the end when there is none
_clean_sql(raw) ==
    LET body == SelectSeq(raw, LAMBDA w : w \notin Fences)
    IN  IF body # << >> /\ body[Len(body)] = ";" THEN body ELSE Append(body, ";")

\* what _get_query_cost hands to validate: (cost, rows) or an exception
ProbeOf(answer) ==
    CASE answer.kind = "plan" ->
           [status |-> "returned", cost |-> answer.cost, rows |-> answer.rows]
      [] answer.kind \in {"no_row", "plan_key_missing"} ->
           [status |-> "returned", cost |-> 0, rows |-> 0]
      [] OTHER -> [status |-> "raised", kind |-> answer.kind]

\* validate after the checks: the ceiling, the row warning, the soft failure;
\* an absent value is << >>, a present one <<value>>
Verdict(found, lexemes, settings, warns) ==
    IF found.status = "returned"
    THEN IF ExceedsCeiling(found.cost, settings)
         THEN QueryValidationResult(FALSE, << >>,
                  <<Message("Query cost estimate exceeds maximum allowed",
                            <<Format2f(found.cost), settings.max_query_cost>>)>>,
                  warns, <<found.cost>>, <<found.rows>>)
         ELSE QueryValidationResult(TRUE, <<lexemes>>, << >>,
                  IF ManyRows(found.rows, settings)
                  THEN Append(warns, Message("Query may return many rows", <<found.rows>>))
                  ELSE warns,
                  <<found.cost>>, <<found.rows>>)
    ELSE QueryValidationResult(TRUE, <<lexemes>>, << >>,
             Append(warns, Message("Could not estimate query cost", <<found.kind>>)),
             << >>, << >>)

\* validate once the checks have run
AfterChecks(run, lexemes, settings, answer) ==
    IF run.errors # << >>
    THEN QueryValidationResult(FALSE, << >>, run.errors, << >>, << >>, << >>)
    ELSE Verdict(ProbeOf(answer), lexemes, settings,
                 IF _has_select_star(parse(lexemes)[1])
                 THEN <<Message("Query uses SELECT * which may be inefficient", << >>)>>
                 ELSE << >>)

\* SQLValidator.validate as a function of the text and of the answer of the engine
validate(lexemes, settings, answer) ==
    AfterChecks(RunChecks(CHECKS, 1, << >>, Join(lexemes), parse(lexemes), settings),
                lexemes, settings, answer)

\* the statements that reach the validator, and what validate and
\* estimate_cost return for each of them
CleanTexts == {_clean_sql(raw) : raw \in Generated}

\* the function f written out as a table
Table(f) == f @@ << >>

Validations ==
    Table([text \in CleanTexts |->
              Table([answer \in ServiceOutcomes |->
                        validate(text, ServiceSettings, answer)])])

Estimates ==
    Table([text \in CleanTexts |->
              Table([actual \in {<<o.cost>> : o \in {a \in ServiceOutcomes : a.kind = "plan"}}
                                \cup {<< >>} |->
                        estimate_cost(Join(text), actual)])])

\* validation.model_dump() as the cache keeps it
model_dump(validation) ==
    [is_valid |-> validation.is_valid, estimated_cost |-> validation.estimated_cost]

\* str(uuid.uuid4()): one per call
uuid4(n) == <<"uuid", n>>

NL2SQLResponse(query_id, question, text, validation, cost_estimate, cached) ==
    [query_id |-> query_id, question |-> question, sql |-> text,
     validation |-> validation, cost_estimate |-> cost_estimate, cached |-> cached]

\* the record r with the fields of f put over it
With(r, f) ==
    [k \in DOMAIN r \cup DOMAIN f |-> IF k \in DOMAIN f THEN f[k] ELSE r[k]]

InitService ==
    /\ gen = [p \in Callers |-> [pc |-> "idle"]]
    /\ issued = 0
    /\ redis = EmptyStore
    /\ owner = EmptyStore
    /\ stored = { }
    /\ last = [op |-> "none"]
    /\ reply = None
    /\ ops = 0
    /\ sql = << >>
    /\ policy = ServiceSettings
    /\ pc = "idle"
    /\ warnings = << >>
    /\ probe = [status |-> "none"]
    /\ conn = "none"
    /\ opened = 0
    /\ stages = << >>
    /\ result = None
    /\ EstimatorIdle
    /\ BreakerIdle

\* a get that hands out the entry although the store raised
cache_get_through(store, question, org_id, raises) == get(store, question, org_id)

\* QueryCache.get: the entry, None on a miss and when the store raises
cache_get(store, question, org_id, raises) ==
    IF raises THEN << >> ELSE get(store, question, org_id)

\* a response to a hit that is not marked as cached
CachedResponse_unmarked(entry, question) ==
    NL2SQLResponse(entry.query_id, question, entry.sql, entry.validation,
                   entry.cost_estimate, FALSE)

\* the response to a hit
CachedResponse(entry, question) ==
    NL2SQLResponse(entry.query_id, question, entry.sql, entry.validation,
                   entry.cost_estimate, TRUE)

\* generate_sql up to the lookup: cache.get, and the cached response on a hit
Lookup(p, question, org_id, raises) ==
    /\ issued < MaxCalls
    /\ gen[p].pc \in {"idle", "returned", "raised"}
    /\ issued' = issued + 1
    /\ last' = Operation("get", question, org_id, raises)
    /\ \E cached_result \in {cache_get(redis, question, org_id, raises)} :
         /\ reply' = cached_result
         /\ gen' = [gen EXCEPT ![p] =
                   IF cached_result # << >>
                   THEN [pc |-> "returned", call |-> issued', question |-> question,
                         org_id |-> org_id, trace |-> <<"cache.get">>,
                         get_raised |-> raises, hit |-> cached_result,
                         response |-> CachedResponse(cached_result[1], question)]
                   ELSE [pc |-> "missed", call |-> issued', question |-> question,
                         org_id |-> org_id, trace |-> <<"cache.get">>,
                         get_raised |-> raises]]
    /\ UNCHANGED <<redis, owner, stored, ops>>
    /\ UNCHANGED <<validatorVars, estimatorVars, breakerVars>>

\* the embedding, the schemas, the prompt, the statement and its cleaning;
\* any of the services may raise (failed_at), which ends the call
Generate(p, raw, failed_at) ==
    /\ gen[p].pc = "missed"
    /\ gen' = [gen EXCEPT ![p] =
                 IF failed_at = 0
                 THEN With(gen[p], [pc |-> "generated", sql |-> _clean_sql(raw),
                                    trace |-> gen[p].trace \o SERVICES])
                 ELSE With(gen[p], [pc |-> "raised",
                                    trace |-> gen[p].trace \o SubSeq(SERVICES, 1, failed_at)])]
    /\ UNCHANGED <<validatorVars, estimatorVars, cacheVars, issued, breakerVars>>

\* a test that lets every verdict through
IsRejected_never(validation) == FALSE

\* if not validation.is_valid
IsRejected(validation) == ~ validation.is_valid

\* validator.validate and the response to a rejected statement
ValidateSql(p, answer) ==
    /\ gen[p].pc = "generated"
    /\ \E validation \in {Validations[gen[p].sql][answer]} :
         gen' = [gen EXCEPT ![p] =
                   IF IsRejected(validation)
                   THEN With(gen[p],
                             [pc |-> "returned", validation |-> validation,
                              trace |-> Append(gen[p].trace, "validator.validate"),
                              response |->
                                  NL2SQLResponse(uuid4(gen[p].call), gen[p].question,
                                                 gen[p].sql, validation, 0, FALSE)])
                   ELSE With(gen[p],
                             [pc |-> "validated", validation |-> validation,
                              trace |-> Append(gen[p].trace, "validator.validate")])]
    /\ UNCHANGED <<validatorVars, estimatorVars, cacheVars, issued, breakerVars>>

\* cost_estimator.estimate_cost and _store_query, whose insert may fail
\* without ending the call
EstimateAndStore(p, insert_fails) ==
    /\ gen[p].pc = "validated"
    /\ gen' = [gen EXCEPT ![p] =
                 With(gen[p],
                      [pc |-> "stored",
                       cost_info |-> Estimates[gen[p].sql][gen[p].validation.estimated_cost],
                       query_id |-> uuid4(gen[p].call),
                       trace |-> gen[p].trace
                                 \o <<"cost_estimator.estimate_cost", "_store_query">>])]
    /\ UNCHANGED <<validatorVars, estimatorVars, cacheVars, issued, breakerVars>>

\* the entry generate_sql hands to cache.set
cache_data(call) ==
    [query_id      |-> call.query_id,
     sql           |-> call.sql,
     validation    |-> model_dump(call.validation),
     cost_estimate |-> call.cost_info.estimated_cost]

\* cache.set, whose result is not looked at, and the response
Write(p, raises) ==
    /\ gen[p].pc = "stored"
    /\ last' = [op |-> "set", question |-> gen[p].question, org_id |-> gen[p].org_id,
                raises |-> raises, data |-> cache_data(gen[p])]
    /\ reply' = ~ raises
    /\ IF raises
       THEN UNCHANGED <<redis, owner, stored>>
       ELSE /\ redis' = redis_setex(redis, _get_cache_key(gen[p].question, gen[p].org_id),
                                    json_dumps(cache_data(gen[p])))
            /\ owner' = redis_setex(owner, _get_cache_key(gen[p].question, gen[p].org_id),
                                    gen[p].org_id)
            /\ stored' = stored \cup {<<gen[p].question, gen[p].org_id>>}
    /\ gen' = [gen EXCEPT ![p] =
                 With(gen[p],
                      [pc |-> "returned", set_raised |-> raises,
                       trace |-> Append(gen[p].trace, "cache.set"),
                       response |->
                           NL2SQLResponse(gen[p].query_id, gen[p].question, gen[p].sql,
                                          gen[p].validation,
                                          gen[p].cost_info.estimated_cost, FALSE)])]
    /\ UNCHANGED <<ops, issued>>
    /\ UNCHANGED <<validatorVars, estimatorVars, breakerVars>>

NextService ==
    \/ \E p \in Callers, q \in ServiceQuestions, o \in ServiceOrgs, raises \in BOOLEAN :
           Lookup(p, q, o, raises)
    \/ \E p \in Callers, raw \in Generated, failed_at \in 0..Len(SERVICES) :
           Generate(p, raw, failed_at)
    \/ \E p \in Callers, answer \in ServiceOutcomes : ValidateSql(p, answer)
    \/ \E p \in Callers, insert_fails \in BOOLEAN : EstimateAndStore(p, insert_fails)
    \/ \E p \in Callers, raises \in BOOLEAN : Write(p, raises)

SpecService == InitService /\ [][NextService]_vars

\* one caller of generate_sql, and the entries invalidated and cleared
\* through the other two operations of the cache
NextDegrade ==
    \/ \E q \in ServiceQuestions, o \in ServiceOrgs, raises \in BOOLEAN :
           Lookup(1, q, o, raises)
    \/ \E raw \in Generated, failed_at \in 0..Len(SERVICES) : Generate(1, raw, failed_at)
    \/ \E answer \in ServiceOutcomes : ValidateSql(1, answer)
    \/ \E insert_fails \in BOOLEAN : EstimateAndStore(1, insert_fails)
    \/ \E raises \in BOOLEAN : Write(1, raises)
    \/ \E q \in ServiceQuestions, o \in ServiceOrgs, raises \in BOOLEAN :
           CacheInvalidate(q, o, raises)
    \/ \E o \in ServiceOrgs \cup {<< >>}, raises \in BOOLEAN : CacheClearAll(o, raises)

SpecDegrade == InitService /\ [][NextDegrade]_vars

(***************************************************************************)
(* CircuitBreaker (circuit_breaker.py).  Every method runs under the lock  *)
(* of the breaker, call until the protected function has ended; the steps  *)
(* are the entry of call, the end of the function, reset, force_open and   *)
(* the passing of time.  last_failure_time is None (<< >>) or the time     *)
(* that has passed since it, counted up to recovery_timeout.               *)
(***************************************************************************)
CircuitState == {"CLOSED", "OPEN", "HALF_OPEN"}

\* the fields of the breaker
Fields(circuit, failures, time) ==
    [state |-> circuit, failure_count |-> failures, last_failure_time |-> time]

Self == Fields(state, failure_count, last_failure_time)

\* time.time() as a last_failure_time: no time has passed since
Now == <<0>>

\* a reset that never finds the timeout elapsed
_should_attempt_reset_never(self, recovery_timeout) == FALSE

\* a reset that is attempted at once
_should_attempt_reset_always(self, recovery_timeout) == TRUE

_should_attempt_reset(self, recovery_timeout) ==
    IF self.last_failure_time = << >>
    THEN FALSE
    ELSE self.last_failure_time[1] >= recovery_timeout

_on_success(self) ==
    Fields(IF self.state = "HALF_OPEN" THEN "CLOSED" ELSE self.state, 0, << >>)

\* a threshold that must be exceeded
Opens_above(failures, failure_threshold) == failures > failure_threshold

\* if self.failure_count >= self.failure_threshold
Opens(failures, failure_threshold) == failures >= failure_threshold

_on_failure(self, failure_threshold) ==
    Fields(IF Opens(self.failure_count + 1, failure_threshold) THEN "OPEN" ELSE self.state,
           self.failure_count + 1, Now)

\* a reset that keeps the count
reset_keeps_count(self) == Fields("CLOSED", self.failure_count, << >>)

reset(self) == Fields("CLOSED", 0, << >>)

force_open(self) == Fields("OPEN", self.failure_count, Now)

\* the fields after the step
Becomes(self) ==
    /\ state' = self.state
    /\ failure_count' = self.failure_count
    /\ last_failure_time' = self.last_failure_time

\* how an operation ended: whether the function was invoked, and what the
\* caller got
Ended(op, invoked, got) == [op |-> op, invoked |-> invoked, got |-> got]

\* what the caller gets when the function is not to be trusted
Fallback(fallback_function, exception) ==
    IF fallback_function THEN "fallback result" ELSE exception

InitBreaker ==
    /\ state = "CLOSED"
    /\ failure_count = 0
    /\ last_failure_time = << >>
    /\ breaker \in [failure_threshold : 1..MaxThreshold,
                     recovery_timeout  : 1..MaxTimeout,
                     fallback_function : BOOLEAN]
    /\ running = FALSE
    /\ ended = [op |-> "none"]
    /\ streak = 0
    /\ manual = 0
    /\ sql = << >>
    /\ policy = ServiceSettings
    /\ pc = "idle"
    /\ warnings = << >>
    /\ probe = [status |-> "none"]
    /\ conn = "none"
    /\ opened = 0
    /\ stages = << >>
    /\ result = None
    /\ EstimatorIdle
    /\ CacheIdle
    /\ ServiceIdle

\* call up to the function: an OPEN breaker turns HALF_OPEN when the timeout
\* has elapsed, and otherwise answers without the function
Call ==
    /\ ~ running
    /\ IF state = "OPEN" /\ ~ _should_attempt_reset(Self, breaker.recovery_timeout)
       THEN /\ ended' = Ended("call", FALSE,
                              Fallback(breaker.fallback_function, "Circuit breaker is OPEN"))
            /\ UNCHANGED <<state, running>>
       ELSE /\ state' = IF state = "OPEN" THEN "HALF_OPEN" ELSE state
            /\ running' = TRUE
            /\ ended' = Ended("call", TRUE, "running")
    /\ UNCHANGED <<failure_count, last_failure_time, breaker, streak, manual>>
    /\ UNCHANGED <<validatorVars, estimatorVars, cacheVars, serviceVars>>

\* the function ends: with a result, with an exception of the expected type
\* or with another exception
Return(how) ==
    /\ running
    /\ running' = FALSE
    /\ CASE how = "result" ->
              /\ Becomes(_on_success(Self))
              /\ ended' = Ended("call", TRUE, "result")
              /\ streak' = 0
         [] how = "expected_exception" ->
              /\ failure_count < MaxFailures
              /\ Becomes(_on_failure(Self, breaker.failure_threshold))
              /\ ended' = Ended("call", TRUE,
                                Fallback(breaker.fallback_function, "expected_exception"))
              /\ streak' = streak + 1
         [] OTHER ->
              /\ ended' = Ended("call", TRUE, "other exception")
              /\ UNCHANGED <<state, failure_count, last_failure_time, streak>>
    /\ UNCHANGED <<breaker, manual>>
    /\ UNCHANGED <<validatorVars, estimatorVars, cacheVars, serviceVars>>

Reset ==
    /\ ~ running
    /\ manual < MaxManual
    /\ manual' = manual + 1
    /\ Becomes(reset(Self))
    /\ ended' = Ended("reset", FALSE, "None")
    /\ streak' = 0
    /\ UNCHANGED <<breaker, running>>
    /\ UNCHANGED <<validatorVars, estimatorVars, cacheVars, serviceVars>>

ForceOpen ==
    /\ ~ running
    /\ manual < MaxManual
    /\ manual' = manual + 1
    /\ Becomes(force_open(Self))
    /\ ended' = Ended("force_open", FALSE, "None")
    /\ UNCHANGED <<breaker, running, streak>>
    /\ UNCHANGED <<validatorVars, estimatorVars, cacheVars, serviceVars>>

\* time passes: it counts while it is below recovery_timeout
Tick ==
    /\ last_failure_time # << >>
    /\ last_failure_time[1] < breaker.recovery_timeout
    /\ last_failure_time' = <<last_failure_time[1] + 1>>
    /\ UNCHANGED <<state, failure_count, breaker, running, ended, streak, manual>>
    /\ UNCHANGED <<validatorVars, estimatorVars, cacheVars, serviceVars>>

NextBreaker ==
    \/ Call
    \/ \E how \in {"result", "expected_exception", "other_exception"} : Return(how)
    \/ Reset
    \/ ForceOpen
    \/ Tick

SpecBreaker == InitBreaker /\ [][NextBreaker]_vars

\* time passes, calls keep arriving and the protected function ends
SpecBreakerLive ==
    /\ SpecBreaker
    /\ WF_vars(Tick)
    /\ WF_vars(Call)
    /\ WF_vars(\E how \in {"result", "expected_exception", "other_exception"} : Return(how))

(***************************************************************************)
(* Properties                                                              *)
(***************************************************************************)
\* the text holds word k as a whole word, in any letter case
HasWholeWord(lexemes, k) ==
    \E i \in DOMAIN lexemes : upper(Spell[lexemes[i]]) = Spell[k]

C1Keywords ==
    {"DROP", "DELETE", "TRUNCATE", "ALTER", "INSERT", "UPDATE", "GRANT", "REVOKE",
     "EXEC", "EXECUTE", "CALL", "MERGE", "REPLACE"}

HasC1Keyword(lexemes) == \E k \in C1Keywords : HasWholeWord(lexemes, k)

LastStage == IF stages = << >> THEN None ELSE stages[Len(stages)]

\* C1: a text that holds one of the thirteen destructive keywords as a whole
\* word, in any letter case and anywhere, never reaches the cost estimate and
\* is returned with is_valid = False, whatever the policy allows.
C1_KeywordRejected ==
    HasC1Keyword(sql) =>
        /\ pc \in {"start", "returned"}
        /\ pc = "returned" => result.is_valid = FALSE

\* a DELETE statement under a policy that allows DELETE, rejected by the keyword check
C1_Witness ==
    /\ pc = "returned"
    /\ sql # << >> /\ sql[1] = "delete"
    /\ "delete" \in policy.allowed_operations
    /\ LastStage = "keywords"
    /\ result.is_valid = FALSE

\* C2: every result validate returns has errors exactly when it is not valid.
C2_ErrorsIffInvalid ==
    pc = "returned" => (result.is_valid <=> result.errors = << >>)

\* a rejection on the cost path, made after warnings and estimates were collected
C2_Witness ==
    /\ pc = "returned"
    /\ LastStage = "cost"
    /\ result.is_valid = FALSE
    /\ result.errors # << >>

\* C3: a text that parses into more than one statement is returned with the
\* multiplicity error alone, after the empty, parse and multiplicity checks
\* and no other stage, and without a connection.
C3_MultipleRejected ==
    (~ IsEmpty(Join(sql)) /\ Len(parse(sql)) > 1) =>
        /\ pc \in {"start", "returned"}
        /\ pc = "returned" =>
              /\ result.is_valid = FALSE
              /\ result.errors = <<Message("Multiple SQL statements are not allowed", << >>)>>
              /\ stages = <<"empty", "parse", "multiple">>
              /\ opened = 0
              /\ probe.status = "none"

\* "SELECT ; SELECT ;" returned
C3_Witness ==
    /\ pc = "returned"
    /\ sql = <<"SELECT", ";", "SELECT", ";">>
    /\ LastStage = "multiple"
    /\ result.is_valid = FALSE

DangerMessages == {"Dangerous keywords found", "Dangerous patterns detected in SQL"}

\* C4: a single statement of an allowed operation that references a blocked
\* table and holds a danger keyword or pattern is reported with the danger
\* error, not with the blocked-table error.
C4_DangerBeforeBlocked ==
    (/\ pc = "returned"
     /\ ~ IsEmpty(Join(sql))
     /\ Len(parse(sql)) = 1
     /\ IsAllowed(_get_statement_type(parse(sql)[1]), policy)
     /\ _check_blocked_tables(parse(sql)[1], policy) # << >>
     /\ \/ _check_dangerous_keywords(Join(sql)) # << >>
        \/ _check_dangerous_patterns(Join(sql)))
    => /\ Len(result.errors) = 1
       /\ result.errors[1].msg \in DangerMessages

\* "SELECT FROM secrets --": a blocked table and a comment marker
C4_Witness ==
    /\ pc = "returned"
    /\ sql = <<"SELECT", "FROM", "secrets", "--">>
    /\ result.errors[1].msg = "Dangerous patterns detected in SQL"

\* the table list of the FROM clause: the names after a FROM, up to the next keyword
RECURSIVE FromClauseTables(_, _)
FromClauseTables(lexemes, in_from) ==
    IF lexemes = << >> THEN { }
    ELSE LET l == Head(lexemes) IN
         IF TokenType(l) = "Name"
         THEN (IF in_from THEN {l} ELSE { }) \cup FromClauseTables(Tail(lexemes), in_from)
         ELSE FromClauseTables(Tail(lexemes), upper(Spell[l]) = Spell["FROM"])

\* a single SELECT statement over tables that are not blocked, free of
\* deny-listed keywords and patterns, of low heuristic cost
SafeSelect(lexemes, settings) ==
    /\ lexemes # << >>
    /\ lexemes[1] = "SELECT"
    /\ Len(parse(lexemes)) = 1
    /\ "SELECT" \in allowed_operations(settings)
    /\ FromClauseTables(lexemes, FALSE) # { }
    /\ \A t \in FromClauseTables(lexemes, FALSE) :
           lower(Spell[t]) \notin blocked_tables(settings)
    /\ \A k \in Range(DANGEROUS_KEYWORDS) : ~ HasWholeWord(lexemes, k)
    /\ ~ _check_dangerous_patterns(Join(lexemes))
    /\ _get_complexity_level(heuristic_cost(Join(lexemes))) = "LOW"

\* C5: a single SELECT statement over tables that are not blocked, without
\* deny-listed keyword or pattern and of low cost (low by the heuristic and
\* not above the ceiling by the planner) is returned valid, without errors.
C5_SafeSelectValid ==
    (/\ pc = "returned"
     /\ SafeSelect(sql, policy)
     /\ probe.status = "returned" => probe.cost <= policy.max_query_cost)
    => /\ result.is_valid = TRUE
       /\ result.errors = << >>

CostMessage == "Query cost estimate exceeds maximum allowed"

\* C6: after a probe that returned, a cost above max_query_cost gives a
\* rejection whose message holds the estimate and the ceiling and whose result
\* carries the probe's cost and rows; a cost up to the ceiling gives a valid result.
C6_CostCeiling ==
    (pc = "returned" /\ probe.status = "returned") =>
        IF probe.cost > policy.max_query_cost
        THEN /\ result.is_valid = FALSE
             /\ Len(result.errors) = 1
             /\ result.errors[1].msg = CostMessage
             /\ result.errors[1].args[1] * 10 = probe.cost
             /\ result.errors[1].args[2] = policy.max_query_cost
             /\ result.estimated_cost = probe.cost
             /\ result.estimated_rows = probe.rows
        ELSE result.is_valid = TRUE

\* a planner cost one hundredth above the ceiling, rejected
C6_Witness ==
    /\ pc = "returned"
    /\ probe.status = "returned"
    /\ probe.cost = policy.max_query_cost + 10
    /\ result.is_valid = FALSE
    /\ result.errors[1].msg = CostMessage

HasWarning(msg) == \E i \in DOMAIN result.warnings : result.warnings[i].msg = msg

\* C7: when the engine was unreachable or gave no usable plan, validate
\* returns a valid result without errors and with the warning that the cost
\* could not be estimated.
C7_ProbeFailureWarns ==
    (pc = "returned" /\ probe.status # "none" /\ probe.outcome # "plan") =>
        /\ result.is_valid = TRUE
        /\ result.errors = << >>
        /\ HasWarning("Could not estimate query cost")

\* C8: once _get_query_cost has returned or raised, no connection it opened
\* is still open.
C8_ConnectionClosed ==
    pc \in {"estimated", "returned", "raised"} => conn # "open"

\* every check that needs no database passes on the text
PassesChecks(lexemes, settings) ==
    /\ ~ IsEmpty(Join(lexemes))
    /\ Len(parse(lexemes)) = 1
    /\ IsAllowed(_get_statement_type(parse(lexemes)[1]), settings)
    /\ _check_dangerous_keywords(Join(lexemes)) = << >>
    /\ ~ _check_dangerous_patterns(Join(lexemes))
    /\ _check_blocked_tables(parse(lexemes)[1], settings) = << >>

Probed == pc \in {"estimating", "estimated"} \/ LastStage = "cost"

\* C9: a call runs the live estimator at most once and opens at most one
\* connection, and only for a text on which the empty, parse, multiplicity,
\* operation, keyword, pattern and blocked-table checks all passed; a call
\* rejected by one of them opens no connection.
C9_ProbeOnlyAfterChecks ==
    /\ opened <= 1
    /\ Cardinality({i \in DOMAIN stages : stages[i] = "cost"}) <= 1
    /\ Probed => /\ PassesChecks(sql, policy)
                 /\ Len(stages) >= 8
                 /\ SubSeq(stages, 1, 8) =
                        <<"empty", "parse", "multiple", "operation", "keywords",
                          "patterns", "blocked", "wildcard">>
    /\ ~ Probed => opened = 0 /\ conn = "none"

\* a call that reached the estimator and opened its one connection
C9_Witness ==
    /\ pc = "returned"
    /\ LastStage = "cost"
    /\ opened = 1

\* C10: validate never raises: whatever the text and whatever the engine
\* does, every call that ends ends with a result.
C10_NeverRaises ==
    /\ pc # "raised"
    /\ pc = "returned" => result.is_valid \in BOOLEAN

\* the estimator raised and validate returned a result all the same
C10_Witness ==
    /\ pc = "returned"
    /\ probe.status = "raised"
    /\ result.is_valid = TRUE

\* the names that stand right after a FROM or a JOIN keyword and match an
\* entry of blocked_tables ignoring letter case, in the order of the text
RECURSIVE BlockedAfter(_, _)
BlockedAfter(lexemes, settings) ==
    IF Len(lexemes) < 2 THEN << >>
    ELSE (IF /\ upper(Spell[lexemes[1]]) \in {Spell["FROM"], Spell["JOIN"]}
             /\ TokenType(lexemes[2]) = "Name"
             /\ \E b \in settings.blocked_tables :
                    lower(Spell[b]) = lower(Spell[lexemes[2]])
          THEN <<lexemes[2]>> ELSE << >>) \o BlockedAfter(Tail(lexemes), settings)

\* a single statement of an allowed operation on which the danger checks pass
PassesDanger(lexemes, settings) ==
    /\ ~ IsEmpty(Join(lexemes))
    /\ Len(parse(lexemes)) = 1
    /\ IsAllowed(_get_statement_type(parse(lexemes)[1]), settings)
    /\ _check_dangerous_keywords(Join(lexemes)) = << >>
    /\ ~ _check_dangerous_patterns(Join(lexemes))

\* C11: a single statement of an allowed operation that passes the danger
\* checks and names, right after a FROM or a JOIN keyword, a table that
\* matches an entry of blocked_tables ignoring letter case is returned with
\* is_valid = False and the blocked-table error, which names every such table.
C11_BlockedRejected ==
    (/\ pc = "returned"
     /\ PassesDanger(sql, policy)
     /\ BlockedAfter(sql, policy) # << >>)
    => /\ result.is_valid = FALSE
       /\ Len(result.errors) = 1
       /\ result.errors[1].msg = "Access to blocked tables"
       /\ Range(BlockedAfter(sql, policy)) \subseteq Range(result.errors[1].args)

\* the kind of a statement: its first DML keyword outside a comment, in
\* upper case, or UNKNOWN when it has none
RECURSIVE StatementKind(_)
StatementKind(lexemes) ==
    IF lexemes = << >> \/ lexemes[1] = "--" THEN "UNKNOWN"
    ELSE IF \E w \in DML_WORDS : upper(Spell[lexemes[1]]) = Spell[w]
         THEN CHOOSE w \in DML_WORDS : upper(Spell[lexemes[1]]) = Spell[w]
         ELSE StatementKind(Tail(lexemes))

\* C12: a single statement whose kind is not in allowed_operations never
\* reaches the danger, blocked-table or cost checks: it is returned after the
\* operation check, without a connection, with the one error that names the
\* kind and the permitted set.
C12_OperationRejected ==
    (/\ ~ IsEmpty(Join(sql))
     /\ Len(parse(sql)) = 1
     /\ StatementKind(sql) \notin allowed_operations(policy))
    => /\ pc \in {"start", "returned"}
       /\ pc = "returned" =>
             /\ result.is_valid = FALSE
             /\ result.errors =
                    <<Message("Operation is not allowed",
                              <<StatementKind(sql), allowed_operations(policy)>>)>>
             /\ stages = <<"empty", "parse", "multiple", "operation">>
             /\ opened = 0
             /\ probe.status = "none"

\* a DROP statement, of kind UNKNOWN, returned by the operation check
C12_Witness ==
    /\ pc = "returned"
    /\ sql # << >> /\ sql[1] = "DROP"
    /\ LastStage = "operation"
    /\ result.errors[1].args[1] = "UNKNOWN"

StarMessage == "Query uses SELECT * which may be inefficient"

RowsMessage == "Query may return many rows"

\* C13: a text on which every check passes and whose live cost, if there is
\* one, is within the ceiling is returned valid and without errors, with the
\* wildcard warning when it projects '*' and with the row warning when the
\* live row estimate is above max_rows_estimate.
C13_WarningsNeverReject ==
    (/\ pc = "returned"
     /\ PassesChecks(sql, policy)
     /\ probe.status = "returned" => probe.cost <= policy.max_query_cost)
    => /\ result.is_valid = TRUE
       /\ result.errors = << >>
       /\ "*" \in Range(sql) => HasWarning(StarMessage)
       /\ (probe.status = "returned" /\ probe.rows > policy.max_rows_estimate)
              => HasWarning(RowsMessage)

\* "SELECT * FROM dropped" with a row estimate above the limit: two warnings, valid
C13_Witness ==
    /\ pc = "returned"
    /\ sql = <<"SELECT", "*", "FROM", "dropped">>
    /\ probe.status = "returned"
    /\ probe.rows > policy.max_rows_estimate
    /\ result.is_valid = TRUE
    /\ Len(result.warnings) = 2

\* the thresholds of the complexity level
LevelOf(heuristic) ==
    CASE heuristic < 2000  -> "LOW"
      [] heuristic >= 2000 /\ heuristic < 5000  -> "MEDIUM"
      [] heuristic >= 5000 /\ heuristic < 10000 -> "HIGH"
      [] heuristic >= 10000 -> "VERY_HIGH"

\* C14: the complexity level estimate_cost returns follows the thresholds
\* 2.0, 5.0 and 10.0 on the heuristic cost of the text, and the level and the
\* heuristic cost are functions of the text alone, whatever actual_cost is.
C14_LevelFromHeuristic ==
    pc = "returned" =>
        /\ estimate.heuristic_cost = heuristic_cost(Join(sql))
        /\ estimate.complexity_level = LevelOf(heuristic_cost(Join(sql)))

\* a text of heuristic cost 7.1 with an actual cost of 1.0: HIGH, estimated 1.0
C14_Witness ==
    /\ pc = "returned"
    /\ estimate.heuristic_cost = 7100
    /\ actual_cost = <<1000>>
    /\ estimate.complexity_level = "HIGH"
    /\ estimate.estimated_cost = 1000

\* C15: estimated_cost is actual_cost whenever an actual_cost is given, zero
\* included, and the heuristic cost only when actual_cost is None.
C15_ActualCostPreferred ==
    pc = "returned" =>
        estimate.estimated_cost =
            IF actual_cost # << >> THEN actual_cost[1] ELSE estimate.heuristic_cost

\* the number of lexemes of the text that are the word
Occurrences(lexemes, word) ==
    Cardinality({i \in DOMAIN lexemes : lexemes[i] = word})

\* the weight the specification gives a join of the kind
JoinWeight(kind) ==
    CASE kind = "CROSS JOIN" -> 5000
      [] kind = "OUTER JOIN" -> 2500
      [] OTHER               -> 2000

\* the joins of the text are all of the one kind and it has no subquery
OnlyJoinsOf(lexemes, kind) ==
    /\ Occurrences(lexemes, kind) > 0
    /\ \A other \in Range(JOIN_TYPES) \ {kind} : Occurrences(lexemes, other) = 0
    /\ Occurrences(lexemes, "SELECT") <= 1

\* C16: a text with n joins of one kind and no other counted feature has the
\* heuristic cost BASE_COST + n * weight of the kind (5.0 for CROSS JOIN, 2.5
\* for OUTER JOIN, 2.0 for every other join).
C16_JoinCountedOnce ==
    pc = "returned" =>
        \A kind \in Range(JOIN_TYPES) :
            OnlyJoinsOf(sql, kind) =>
                estimate.heuristic_cost =
                    BASE_COST + Occurrences(sql, kind) * JoinWeight(kind)

SameNormalized(q1, q2) == Normalized(q1) = Normalized(q2)

\* the organization has set the question, in some spelling
HasStored(org_id, question) ==
    \E p \in stored : p[2] = org_id /\ SameNormalized(p[1], question)

\* the last operation was a set that the store accepted
JustSet == last.op = "set" /\ ~ last.raises

\* C17: right after set(Q, O, E) on a reachable store, get(Q, O) returns an
\* entry equal to E, and get(Q, O') returns nothing for every organization
\* O' that never stored Q.
C17_RoundTrip ==
    JustSet =>
        /\ get(redis, last.question, last.org_id) = <<last.data>>
        /\ \A other \in Orgs :
              ~ HasStored(other, last.question)
                  => get(redis, last.question, other) = << >>

\* the round trip alone: set(Q, O, E), then get(Q, O)
SetThenGet ==
    JustSet => get(redis, last.question, last.org_id) = <<last.data>>

\* C18: the keys of two organizations never coincide, whatever the
\* questions, and get(q, org) never returns an entry that another
\* organization stored.
C18_OrgsNeverCollide ==
    /\ \A o1, o2 \in Orgs : \A q1, q2 \in Questions :
           o1 # o2 => _get_cache_key(q1, o1) # _get_cache_key(q2, o2)
    /\ \A o \in Orgs : \A q \in Questions :
           get(redis, q, o) # << >> => owner[_get_cache_key(q, o)] = o

\* the question without its outer blanks
Core(question) ==
    IF \A i \in DOMAIN question : IsSpace(question[i]) THEN << >>
    ELSE LET inner == {i \in DOMAIN question : ~ IsSpace(question[i])}
         IN  SubSeq(question,
                    CHOOSE i \in inner : \A j \in inner : i <= j,
                    CHOOSE i \in inner : \A j \in inner : i >= j)

\* the two questions differ at most in letter case and in outer blanks
SameQuestion(q1, q2) ==
    /\ Len(Core(q1)) = Len(Core(q2))
    /\ \A i \in DOMAIN Core(q1) : UpperChar[Core(q1)[i]] = UpperChar[Core(q2)[i]]

\* C19: two questions that differ only in letter case or in outer blanks
\* have the same key under the same organization: after a set with one, get
\* with the other returns the entry, and after an invalidate with one, get
\* with the other returns nothing.
C19_NormalizedKey ==
    /\ \A o \in Orgs : \A q1, q2 \in Questions :
           SameQuestion(q1, q2) => _get_cache_key(q1, o) = _get_cache_key(q2, o)
    /\ JustSet =>
           \A q \in Questions :
               SameQuestion(q, last.question) => get(redis, q, last.org_id) = <<last.data>>
    /\ (last.op = "invalidate" /\ ~ last.raises) =>
           \A q \in Questions :
               SameQuestion(q, last.question) => get(redis, q, last.org_id) = << >>

\* get("q") returns the entry that was set under " Q" and under no other spelling
C19_Witness ==
    /\ last.op = "get"
    /\ ~ last.raises
    /\ last.question = <<"q">>
    /\ reply # << >>
    /\ stored = {<<<<" ", "Q">>, last.org_id>>}

\* C20: clear_all(org) removes every entry stored under org and no entry of
\* another organization, and returns the number of entries it removed.
C20_ClearAllByOrg ==
    [][(last'.op = "clear_all" /\ ~ last'.raises /\ last'.org_id # << >>) =>
          /\ \A k \in DOMAIN redis :
                 (k \in DOMAIN redis') <=> (owner[k] # last'.org_id)
          /\ reply' = Cardinality({k \in DOMAIN redis : owner[k] = last'.org_id})]_vars

\* the step is an invalidate that the store accepted
Invalidated == last'.op = "invalidate" /\ ~ last'.raises

\* C21: an accepted invalidate(question, org) returns True and removes the
\* entry under the key of (question, org) and nothing else: get(question,
\* org) then returns nothing, every other key keeps its value, and a key
\* without an entry stays without one until a set.
C21_InvalidateExactly ==
    [][/\ Invalidated =>
             /\ reply' = TRUE
             /\ get(redis', last'.question, last'.org_id) = << >>
             /\ DOMAIN redis' =
                    DOMAIN redis \ {_get_cache_key(last'.question, last'.org_id)}
             /\ \A k \in DOMAIN redis' : redis'[k] = redis[k]
       /\ \A o \in Orgs : \A q \in Questions :
             (get(redis, q, o) = << >> /\ last'.op # "set")
                 => get(redis', q, o) = << >>]_vars

\* an invalidate that removed one of two entries
C21_Witness ==
    /\ last.op = "invalidate"
    /\ ~ last.raises
    /\ reply = TRUE
    /\ HasStored(last.org_id, last.question)
    /\ Cardinality(DOMAIN redis) = 1
    /\ Cardinality(stored) = 2

\* the call of caller p has the field and it is true
Flag(p, field) == field \in DOMAIN gen[p] /\ gen[p][field]

\* the services a call reaches between a miss and its verdict
MissPath == <<"cache.get">> \o SERVICES \o <<"validator.validate">>

\* C22: when the store raises, get returns None, set and invalidate return
\* False and clear_all returns 0; a call of generate_sql whose get raised
\* goes the way of a miss (no cached response, the services and the
\* validator are reached, only a failing service ends it with an exception)
\* and a call whose set raised returns its response all the same.
C22_FailureIsMiss ==
    /\ (last.op \in {"get", "set", "invalidate", "clear_all"} /\ last.raises) =>
          CASE last.op = "get" -> reply = << >>
            [] last.op \in {"set", "invalidate"} -> reply = FALSE
            [] OTHER -> reply = 0
    /\ \A p \in Callers :
          /\ Flag(p, "get_raised") =>
                /\ "hit" \notin DOMAIN gen[p]
                /\ gen[p].pc = "raised" =>
                      gen[p].trace[Len(gen[p].trace)] \in Range(SERVICES)
                /\ gen[p].pc = "returned" =>
                      /\ ~ gen[p].response.cached
                      /\ gen[p].response.validation = gen[p].validation
                      /\ SubSeq(gen[p].trace, 1, Len(MissPath)) = MissPath
          /\ Flag(p, "set_raised") =>
                /\ gen[p].pc = "returned"
                /\ gen[p].response =
                       NL2SQLResponse(gen[p].query_id, gen[p].question, gen[p].sql,
                                      gen[p].validation,
                                      gen[p].cost_info.estimated_cost, FALSE)

\* a second call whose get raised over a stored entry and whose set raised too
C22_Witness ==
    /\ Flag(1, "get_raised")
    /\ Flag(1, "set_raised")
    /\ gen[1].call = 2
    /\ gen[1].pc = "returned"
    /\ DOMAIN redis # { }
    /\ last.op = "set"
    /\ reply = FALSE

\* the entry the store holds for the request of caller p
EntryFor(p) == json_loads(redis[_get_cache_key(gen'[p].question, gen'[p].org_id)])

\* C23: a call of generate_sql that finds an entry returns at once the
\* query_id, sql, validation and cost of that entry with cached = True; it
\* reaches no service but cache.get and leaves the store as it was.
C23_HitReturnsCached ==
    [][\A p \in Callers :
          (gen'[p] # gen[p] /\ "hit" \in DOMAIN gen'[p]) =>
              /\ gen'[p].pc = "returned"
              /\ gen'[p].response.query_id = EntryFor(p).query_id
              /\ gen'[p].response.sql = EntryFor(p).sql
              /\ gen'[p].response.validation = EntryFor(p).validation
              /\ gen'[p].response.cost_estimate = EntryFor(p).cost_estimate
              /\ gen'[p].response.cached
              /\ gen'[p].trace = <<"cache.get">>
              /\ redis' = redis]_vars

\* caller 2 is handed the entry that the call of caller 1 wrote for the same
\* question in another spelling
C23_Witness ==
    /\ "hit" \in DOMAIN gen[2]
    /\ gen[1].pc = "returned"
    /\ Flag(1, "set_raised") = FALSE
    /\ "set_raised" \in DOMAIN gen[1]
    /\ gen[1].question # gen[2].question
    /\ gen[2].response.query_id = gen[1].query_id
    /\ gen[2].response.cached

\* the key of the request of caller p
KeyOf(p) == _get_cache_key(gen[p].question, gen[p].org_id)

\* caller p is at or past its cache.set and found nothing at its lookup
MissedAndStored(p) == gen[p].pc = "stored" \/ "set_raised" \in DOMAIN gen[p]

\* the step is the accepted cache.set of caller p
Sets(p) == gen[p].pc = "stored" /\ gen'[p].pc = "returned" /\ ~ gen'[p].set_raised

\* C24: when two calls of generate_sql for the same key both miss and both
\* set, each set leaves under the key the whole entry of the call that made
\* it (so the store ends with the entry of the later set, never parts of
\* both), touches no other key and no other call, and the response of each
\* call carries its own query_id and validation; the two query_ids differ.
C24_LastSetWins ==
    [][\A p \in Callers : \A o \in Callers \ {p} :
          (Sets(p) /\ MissedAndStored(o) /\ KeyOf(o) = KeyOf(p)) =>
              /\ DOMAIN redis' = DOMAIN redis \cup {KeyOf(p)}
              /\ redis'[KeyOf(p)] = json_dumps(cache_data(gen[p]))
              /\ get(redis', gen[o].question, gen[o].org_id) = <<json_loads(json_dumps(cache_data(gen[p])))>>
              /\ \A k \in DOMAIN redis \ {KeyOf(p)} : redis'[k] = redis[k]
              /\ gen'[o] = gen[o]
              /\ gen'[p].response.query_id = gen[p].query_id
              /\ gen'[p].response.validation = gen[p].validation
              /\ gen[p].query_id # gen[o].query_id]_vars

\* both calls missed and both set; the store holds the entry of caller 2,
\* whose call began first and whose set came last, and the entries differ
C24_Witness ==
    /\ \A p \in Callers :
          /\ gen[p].pc = "returned"
          /\ "set_raised" \in DOMAIN gen[p]
          /\ ~ gen[p].set_raised
          /\ ~ gen[p].get_raised
    /\ KeyOf(1) = KeyOf(2)
    /\ gen[2].call = 1
    /\ gen[1].call = 2
    /\ gen[1].sql # gen[2].sql
    /\ redis[KeyOf(1)] = json_dumps(cache_data(gen[2]))
    /\ gen[1].response.query_id = uuid4(2)
    /\ gen[2].response.query_id = uuid4(1)

\* the place of a service in the trace of a call, 0 when it was not reached
Reached(trace, service) ==
    IF \E i \in 1..Len(trace) : trace[i] = service
    THEN CHOOSE i \in 1..Len(trace) : trace[i] = service
    ELSE 0

\* C30: generate_sql reaches cache.set only after a validation whose
\* is_valid is True; every entry in the store has validation.is_valid =
\* True, a hit returns none that is rejected, and a call whose statement
\* was rejected never reaches cache.set.
C30_OnlyValidCached ==
    /\ \A k \in DOMAIN redis : json_loads(redis[k]).validation.is_valid
    /\ \A p \in Callers :
          /\ "hit" \in DOMAIN gen[p] => gen[p].response.validation.is_valid
          /\ (gen[p].pc # "idle" /\ Reached(gen[p].trace, "cache.set") > 0) =>
                /\ gen[p].validation.is_valid
                /\ Reached(gen[p].trace, "validator.validate") > 0
                /\ Reached(gen[p].trace, "validator.validate")
                      < Reached(gen[p].trace, "cache.set")
          /\ ("validation" \in DOMAIN gen[p] /\ ~ gen[p].validation.is_valid) =>
                /\ gen[p].pc = "returned"
                /\ Reached(gen[p].trace, "cache.set") = 0

\* the statement of caller 1 was rejected for its cost and returned; the
\* call of caller 2 for the same question then finds nothing
C30_Witness ==
    /\ gen[1].pc = "returned"
    /\ "validation" \in DOMAIN gen[1]
    /\ ~ gen[1].validation.is_valid
    /\ gen[1].validation.estimated_cost # << >>
    /\ ~ gen[1].response.cached
    /\ gen[2].pc = "missed"
    /\ gen[2].call = 2
    /\ ~ gen[2].get_raised
    /\ DOMAIN redis = { }

\* the step is the end of the protected function
FunctionEnds == running /\ ~ running'

\* the step is the end of the function with an exception of the expected type
FunctionFails == FunctionEnds /\ streak' = streak + 1

\* C25: the breaker becomes OPEN exactly at the end of a call that fails with
\* the expected type and brings the failures since the last success or reset
\* to failure_threshold (from CLOSED: to exactly failure_threshold);
\* failure_count is that number of failures, and a successful call sets it
\* to 0.
C25_OpensAtThreshold ==
    /\ [](failure_count = streak)
    /\ [][FunctionEnds =>
             /\ state' = "OPEN" <=>
                    (FunctionFails /\ streak' >= breaker.failure_threshold)
             /\ (state = "CLOSED" /\ state' = "OPEN") =>
                    streak' = breaker.failure_threshold
             /\ ended'.got = "result" => (failure_count' = 0 /\ streak' = 0)]_vars

\* a breaker with a threshold above 1 that its calls alone have opened
C25_Witness ==
    /\ state = "OPEN"
    /\ manual = 0
    /\ breaker.failure_threshold >= 2
    /\ streak = breaker.failure_threshold
    /\ ended.op = "call"
    /\ ended.invoked

\* the breaker is OPEN and less than recovery_timeout has passed since
\* last_failure_time
TooEarly ==
    /\ state = "OPEN"
    /\ last_failure_time # << >>
    /\ last_failure_time[1] < breaker.recovery_timeout

\* the step is a call that has been answered or has entered the function
Called == ~ running /\ ended'.op = "call" /\ ended' # ended

\* C26: a call that finds the breaker OPEN before recovery_timeout has
\* elapsed does not invoke the function, hands the caller the result of the
\* fallback when one is configured and the exception "Circuit breaker is
\* OPEN" otherwise, and leaves state, failure_count and last_failure_time
\* as they were; the function never runs in an OPEN breaker.
C26_FailFast ==
    /\ [](running => state # "OPEN")
    /\ [][(TooEarly /\ Called) =>
             /\ ~ running'
             /\ ~ ended'.invoked
             /\ ended'.got = IF breaker.fallback_function
                             THEN "fallback result"
                             ELSE "Circuit breaker is OPEN"
             /\ UNCHANGED <<state, failure_count, last_failure_time>>]_vars

\* a call answered by the fallback some time after the last failure
C26_Witness ==
    /\ TooEarly
    /\ last_failure_time[1] > 0
    /\ ended = Ended("call", FALSE, "fallback result")
    /\ failure_count >= breaker.failure_threshold

\* recovery_timeout has passed since last_failure_time
Elapsed ==
    /\ last_failure_time # << >>
    /\ last_failure_time[1] >= breaker.recovery_timeout

C28_TrialDecides ==
    [][(state = "HALF_OPEN" /\ FunctionEnds) =>
          /\ ended'.got = "result" =>
                /\ state' = "CLOSED"
                /\ failure_count' = 0
                /\ last_failure_time' = << >>
          /\ FunctionFails => state' = "OPEN"]_vars

\* C29: a CLOSED breaker has failure_count below failure_threshold, and
\* failure_count is never negative.
C29_ClosedBelowThreshold ==
    /\ state = "CLOSED" => failure_count < breaker.failure_threshold
    /\ failure_count >= 0

\* a CLOSED breaker one failure from opening, after a reset or a force_open
C29_Witness ==
    /\ state = "CLOSED"
    /\ failure_count >= 1
    /\ failure_count = breaker.failure_threshold - 1
    /\ manual >= 1
    /\ ~ running

====
